---- MODULE Spec2Model ----
(***************************************************************************)
(* The league tree editor of src/src/App.tsx over the data of data.ts      *)
(* (src/unnamed/part_000).  App.tsx holds two versions of the component;   *)
(* the model follows the later one, lines 810-1848 (App at line 854).      *)
(*                                                                         *)
(* The item map is a JavaScript object: a map from id strings to items,    *)
(* whose keys are enumerated in insertion order.  It is modelled by the    *)
(* pair (items, keys).  An item is a record; the optional field children   *)
(* is absent from the record when the JavaScript property is undefined.    *)
(* Ids and names are strings, built with the same concatenations as the    *)
(* template literals of the source.                                        *)
(***************************************************************************)
EXTENDS Integers, Sequences, FiniteSets, TLC

\* ------------------------------------------------------------------------
\* Bounds of the model.
\* ------------------------------------------------------------------------
\* Number of handler calls in one run.
MaxOps == 2
\* Largest value of the millisecond clock read by Date.now().
MaxClock == 1
\* Math.floor(Math.random() * 1000) is drawn from 0 .. MaxRand - 1.
MaxRand == 2

\* ------------------------------------------------------------------------
\* data.ts
\* ------------------------------------------------------------------------
leagueStructure ==
    "root" :>
        [index |-> "root", isFolder |-> TRUE,
         children |-> <<"monday", "wednesday", "friday">>,
         data |-> [name |-> "League Structure", type |-> "Conference"]] @@
    "monday" :>
        [index |-> "monday", isFolder |-> TRUE,
         children |-> <<"8u", "10u", "12u", "13u">>,
         data |-> [name |-> "Monday", type |-> "Conference"]] @@
    "wednesday" :>
        [index |-> "wednesday", isFolder |-> TRUE,
         children |-> <<"8u-wed", "10u-wed", "12u-wed", "13u-wed">>,
         data |-> [name |-> "Wednesday", type |-> "Conference"]] @@
    "friday" :>
        [index |-> "friday", isFolder |-> TRUE,
         children |-> <<"8u-fri", "10u-fri", "12u-fri", "13u-fri">>,
         data |-> [name |-> "Friday", type |-> "Conference"]] @@
    "8u" :>
        [index |-> "8u", isFolder |-> TRUE,
         children |-> <<"team-8u-1", "team-8u-2">>,
         data |-> [name |-> "8U", type |-> "Division"]] @@
    "10u" :>
        [index |-> "10u", isFolder |-> TRUE,
         children |-> <<>>,
         data |-> [name |-> "10U", type |-> "Division"]] @@
    "12u" :>
        [index |-> "12u", isFolder |-> TRUE,
         children |-> <<"team-12u-1", "team-12u-2", "team-12u-3">>,
         data |-> [name |-> "12U", type |-> "Division"]] @@
    "13u" :>
        [index |-> "13u", isFolder |-> TRUE,
         children |-> <<>>,
         data |-> [name |-> "13U", type |-> "Division"]] @@
    "8u-wed" :>
        [index |-> "8u-wed", isFolder |-> TRUE,
         children |-> <<>>,
         data |-> [name |-> "8U", type |-> "Division"]] @@
    "10u-wed" :>
        [index |-> "10u-wed", isFolder |-> TRUE,
         children |-> <<"team-10u-wed-1", "team-10u-wed-2">>,
         data |-> [name |-> "10U", type |-> "Division"]] @@
    "12u-wed" :>
        [index |-> "12u-wed", isFolder |-> TRUE,
         children |-> <<>>,
         data |-> [name |-> "12U", type |-> "Division"]] @@
    "13u-wed" :>
        [index |-> "13u-wed", isFolder |-> TRUE,
         children |-> <<"team-13u-wed-1">>,
         data |-> [name |-> "13U", type |-> "Division"]] @@
    "8u-fri" :>
        [index |-> "8u-fri", isFolder |-> TRUE,
         children |-> <<>>,
         data |-> [name |-> "8U", type |-> "Division"]] @@
    "10u-fri" :>
        [index |-> "10u-fri", isFolder |-> TRUE,
         children |-> <<>>,
         data |-> [name |-> "10U", type |-> "Division"]] @@
    "12u-fri" :>
        [index |-> "12u-fri", isFolder |-> TRUE,
         children |-> <<"team-12u-fri-1", "team-12u-fri-2">>,
         data |-> [name |-> "12U", type |-> "Division"]] @@
    "13u-fri" :>
        [index |-> "13u-fri", isFolder |-> TRUE,
         children |-> <<>>,
         data |-> [name |-> "13U", type |-> "Division"]] @@
    "team-8u-1" :>
        [index |-> "team-8u-1", isFolder |-> FALSE,
         data |-> [name |-> "Tigers", type |-> "Team"]] @@
    "team-8u-2" :>
        [index |-> "team-8u-2", isFolder |-> FALSE,
         data |-> [name |-> "Lions", type |-> "Team"]] @@
    "team-12u-1" :>
        [index |-> "team-12u-1", isFolder |-> FALSE,
         data |-> [name |-> "Eagles", type |-> "Team"]] @@
    "team-12u-2" :>
        [index |-> "team-12u-2", isFolder |-> FALSE,
         data |-> [name |-> "Hawks", type |-> "Team"]] @@
    "team-12u-3" :>
        [index |-> "team-12u-3", isFolder |-> FALSE,
         data |-> [name |-> "Falcons", type |-> "Team"]] @@
    "team-10u-wed-1" :>
        [index |-> "team-10u-wed-1", isFolder |-> FALSE,
         data |-> [name |-> "Sharks", type |-> "Team"]] @@
    "team-10u-wed-2" :>
        [index |-> "team-10u-wed-2", isFolder |-> FALSE,
         data |-> [name |-> "Dolphins", type |-> "Team"]] @@
    "team-13u-wed-1" :>
        [index |-> "team-13u-wed-1", isFolder |-> FALSE,
         data |-> [name |-> "Cougars", type |-> "Team"]] @@
    "team-12u-fri-1" :>
        [index |-> "team-12u-fri-1", isFolder |-> FALSE,
         data |-> [name |-> "Bears", type |-> "Team"]] @@
    "team-12u-fri-2" :>
        [index |-> "team-12u-fri-2", isFolder |-> FALSE,
         data |-> [name |-> "Wolves", type |-> "Team"]]

\* Object.keys(leagueStructure): no key is an integer index, so the order is
\* the insertion order of the literal.
leagueKeys ==
    << "root", "monday", "wednesday", "friday",
       "8u", "10u", "12u", "13u",
       "8u-wed", "10u-wed", "12u-wed", "13u-wed",
       "8u-fri", "10u-fri", "12u-fri", "13u-fri",
       "team-8u-1", "team-8u-2", "team-12u-1", "team-12u-2",
       "team-12u-3", "team-10u-wed-1", "team-10u-wed-2", "team-13u-wed-1",
       "team-12u-fri-1", "team-12u-fri-2" >>

\* The ids of the initial data on which the handlers are called in a run; the
\* ids created during the run are added to them (see Targets).
Focus == {"root", "8u", "team-8u-1", "10u"}

\* Names typed into the rename input and the modals.
NewNames == {"Alpha"}

\* Types chosen in the modals, out of ItemData['type'].
NewTypes == {"Team"}

\* ------------------------------------------------------------------------
\* JavaScript helpers
\* ------------------------------------------------------------------------
\* item.children is defined
HasChildren(item) == "children" \in DOMAIN item

\* item.f = v, on an item that may or may not have the property f
SetField(item, f, v) ==
    [k \in (DOMAIN item) \cup {f} |-> IF k = f THEN v ELSE item[k]]

\* array.includes(x)
Includes(s, x) == \E i \in 1..Len(s) : s[i] = x

\* array.indexOf(x) + 1: the 1-based position of the first x, 0 when absent
IndexOf(s, x) ==
    IF Includes(s, x)
    THEN CHOOSE i \in 1..Len(s) : s[i] = x /\ \A j \in 1..(i - 1) : s[j] # x
    ELSE 0

\* array.filter(id => id !== x)
FilterOut(s, x) == SelectSeq(s, LAMBDA y : y # x)

\* copy = [...array]; copy.splice(pos, 0, x), pos a 0-based index
Splice(s, pos, x) == SubSeq(s, 1, pos) \o <<x>> \o SubSeq(s, pos + 1, Len(s))

\* obj[k] = v on the object (its, ks): a new key goes last in Object.keys
PutItem(st, k, v) ==
    [st EXCEPT
        !.items = [x \in (DOMAIN st.items) \cup {k} |->
                      IF x = k THEN v ELSE st.items[x]],
        !.keys = IF k \in DOMAIN st.items THEN st.keys ELSE Append(st.keys, k)]

\* delete obj[k]
DeleteItem(st, k) ==
    [st EXCEPT
        !.items = [x \in (DOMAIN st.items) \ {k} |-> st.items[x]],
        !.keys = FilterOut(st.keys, k)]

\* Object.keys(its).find(key => its[key].children?.includes(id)), as the
\* 1-based position of the key in Object.keys, 0 for undefined
FindParent(its, ks, id) ==
    LET holds(i) == HasChildren(its[ks[i]]) /\ Includes(its[ks[i]].children, id)
    IN  IF \E i \in 1..Len(ks) : holds(i)
        THEN CHOOSE i \in 1..Len(ks) : holds(i) /\ \A j \in 1..(i - 1) : ~holds(j)
        ELSE 0

\* ------------------------------------------------------------------------
\* The tree that the children arrays describe
\* ------------------------------------------------------------------------
\* its[k].children, empty for a missing item and for an item without children
ChildrenOf(its, k) ==
    IF k \in DOMAIN its /\ HasChildren(its[k]) THEN its[k].children ELSE <<>>

ChildSet(its, k) ==
    LET c == ChildrenOf(its, k) IN {c[i] : i \in 1..Len(c)}

\* The least set that contains S and the children of its members.
RECURSIVE Closure(_, _)
Closure(its, S) ==
    LET RECURSIVE grow(_, _)
        \* done holds S and what has been reached; frontier is the part of
        \* done whose children have not been added yet
        grow(done, frontier) ==
            LET new == UNION {ChildSet(its, k) : k \in frontier} \ done
            IN  IF new = {} THEN done ELSE grow(done \cup new, new)
    IN  grow(S, S)

\* The ids reached from k by following children one or more times.
Descendants(its, k) == Closure(its, ChildSet(its, k))

\* The subtree of k: k and its descendants.
Subtree(its, k) == {k} \cup Descendants(its, k)

\* ------------------------------------------------------------------------
\* State
\* ------------------------------------------------------------------------
VARIABLES
    items,          \* the items state of App: id -> item
    keys,           \* Object.keys(items)
    now,            \* the value Date.now() returns
    nOps,           \* the number of handler calls so far (bounded by MaxOps)
    searchTerm,     \* the searchTerm state of App
    showEmptyState, \* the showEmptyState state of App
    expandedItems,  \* the expanded items of tree-1, kept by the tree environment
    last,           \* history: the last handler call, with its argument, the id
                    \* it built, the item map it started from and the calls it
                    \* made on the data provider, the tree and the document
    microtasks,     \* the callbacks queued by Promise.resolve().then, in order
    frames,         \* the callbacks queued by requestAnimationFrame, in order
    calls           \* history: the calls made by the handlers and callbacks that
                    \* are run as separate jobs, in the order they were made

\* The job queues and their history.  They stay empty where a handler and its
\* callbacks are taken as one step.
jobs == <<microtasks, frames, calls>>

vars == <<items, keys, now, nOps, searchTerm, showEmptyState, expandedItems, last,
          microtasks, frames, calls>>

\* viewState['tree-1'].expandedItems, also the defaultExpanded of the search
defaultExpanded == {"root", "monday", "wednesday", "friday"}

\* Variant: the test toggle is not looked at.
isTreeEmptyWithoutToggle(its, empty) ==
    \/ "root" \notin DOMAIN its
    \/ ~HasChildren(its["root"])
    \/ Len(its["root"].children) = 0

\* isTreeEmpty()
isTreeEmpty(its, empty) ==
    \/ empty
    \/ "root" \notin DOMAIN its
    \/ ~HasChildren(its["root"])
    \/ Len(its["root"].children) = 0

\* treeRef.current is set: Tree is rendered exactly when isTreeEmpty() is false.
treeRefCurrent(its, empty) == ~isTreeEmpty(its, empty)

\* The expanded items after a render: the environment is unmounted together
\* with the tree, and starts from its viewState when it is mounted again.
ViewStateAfter(its, empty, expanded) ==
    IF treeRefCurrent(its, empty) THEN expanded ELSE defaultExpanded

\* Variant of the effect: the keys of the map before the change are emitted.
useEffectEmitStale(its, ks, before) == before

\* The effect on [items, dataProvider]: dataProvider is built anew by every
\* render, so that every render emits Object.keys(items).  before is
\* Object.keys of the previous render.
useEffectEmit(its, ks, before) == ks

\* What a handler reports to its caller: the handlers of App return no value,
\* throw nothing and show no message, whatever their updater does.
NoError == "none"

\* A follow-up that makes no call.
NoFollowUp == [emitted |-> {}, expand |-> {}, rename |-> {}]

Init ==
    /\ items = leagueStructure
    /\ keys = leagueKeys
    /\ now = 0
    /\ nOps = 0
    /\ searchTerm = ""
    /\ showEmptyState = FALSE
    /\ expandedItems = defaultExpanded
    /\ last = [op |-> "init", id |-> "", newId |-> "",
               prev |-> leagueStructure, prevKeys |-> leagueKeys,
               emitted |-> {useEffectEmit(leagueStructure, leagueKeys, <<>>)},
               expand |-> {}, rename |-> {}, scroll |-> {}, error |-> NoError]
    /\ microtasks = <<>>
    /\ frames = <<>>
    /\ calls = <<>>

\* The ids a handler can be called on in the current state.  The context menu,
\* the rename input and the drop targets belong to rendered items, and Tree
\* renders the items below rootItem = 'root'; the handlers are also called on
\* the root itself.
Targets ==
    LET rendered == Descendants(items, "root")
    IN  {k \in DOMAIN items :
            /\ k \in Focus \/ k \notin DOMAIN leagueStructure
            /\ k = "root" \/ k \in rendered}

\* The clock advances between handler calls.
Tick ==
    /\ now < MaxClock
    /\ now' = now + 1
    /\ UNCHANGED <<items, keys, nOps, searchTerm, showEmptyState,
                   expandedItems, last, jobs>>

\* Commit of the result of a setItems updater with the render that follows it,
\* and the follow-up fx of the handler: the ids it expands, the id lists it
\* emits and the id it starts to rename.  empty is the value of showEmptyState
\* that the handler leaves.
CommitWith(st, op, id, newId, fx, empty) ==
    /\ items' = st.items
    /\ keys' = st.keys
    /\ nOps' = nOps + 1
    /\ showEmptyState' = empty
    /\ expandedItems' =
           ViewStateAfter(st.items, empty, expandedItems \cup fx.expand)
    /\ last' = [op |-> op, id |-> id, newId |-> newId,
                prev |-> items, prevKeys |-> keys,
                emitted |-> {useEffectEmit(st.items, st.keys, keys)}
                                \cup fx.emitted,
                expand |-> fx.expand, rename |-> fx.rename, scroll |-> {},
                error |-> NoError]
    /\ UNCHANGED <<now, searchTerm, jobs>>

\* Commit for a handler without follow-up.
Commit(st, op, id, newId) ==
    CommitWith(st, op, id, newId, NoFollowUp, showEmptyState)

\* ------------------------------------------------------------------------
\* handleDelete
\* ------------------------------------------------------------------------
\* Variant: the key is deleted, the id stays in the children of the parent.
handleDeleteUpdaterLeavesReference(prevItems, prevKeys, itemId) ==
    LET newItems == [items |-> prevItems, keys |-> prevKeys]
    IN  IF FindParent(prevItems, prevKeys, itemId) # 0
        THEN DeleteItem(newItems, itemId)
        ELSE newItems

\* Variant: the key is deleted also when no parent lists the id.
handleDeleteUpdaterUnguarded(prevItems, prevKeys, itemId) ==
    LET newItems == [items |-> prevItems, keys |-> prevKeys]
        parentIdx == FindParent(prevItems, prevKeys, itemId)
    IN  IF parentIdx # 0
        THEN LET parentId == prevKeys[parentIdx]
                 parentItem == prevItems[parentId]
                 filtered == SetField(parentItem, "children",
                                      FilterOut(parentItem.children, itemId))
             IN  DeleteItem(PutItem(newItems, parentId, filtered), itemId)
        ELSE DeleteItem(newItems, itemId)

handleDeleteUpdater(prevItems, prevKeys, itemId) ==
    LET newItems == [items |-> prevItems, keys |-> prevKeys]
        parentIdx == FindParent(prevItems, prevKeys, itemId)
    IN  IF parentIdx # 0
        THEN LET parentId == prevKeys[parentIdx]
                 parentItem == prevItems[parentId]
                 filtered == SetField(parentItem, "children",
                                      FilterOut(parentItem.children, itemId))
             IN  DeleteItem(PutItem(newItems, parentId, filtered), itemId)
        ELSE newItems

handleDelete(itemId) ==
    Commit(handleDeleteUpdater(items, keys, itemId), "delete", itemId, "")

\* ------------------------------------------------------------------------
\* handleCreateTopLevelGroup
\* ------------------------------------------------------------------------
handleCreateTopLevelGroupUpdater(prevItems, prevKeys, newId, name, type) ==
    LET created == PutItem([items |-> prevItems, keys |-> prevKeys], newId,
                       [index |-> newId, isFolder |-> TRUE, children |-> <<>>,
                        data |-> [name |-> name, type |-> type],
                        canMove |-> TRUE, canRename |-> TRUE])
    IN  IF "root" \in DOMAIN created.items
        THEN LET rootItem == created.items["root"]
                 old == IF HasChildren(rootItem) THEN rootItem.children ELSE <<>>
             IN  PutItem(created, "root",
                         SetField(rootItem, "children", Append(old, newId)))
        ELSE created

handleCreateTopLevelGroup(name, type) ==
    LET newId == "group-" \o ToString(now)
    IN  CommitWith(handleCreateTopLevelGroupUpdater(items, keys, newId, name, type),
                   "create", "root", newId, NoFollowUp, FALSE)

\* ------------------------------------------------------------------------
\* handleAddSubGroup
\* ------------------------------------------------------------------------
\* Variant: parentId is written where newId belongs in the children of the
\* parent.
handleAddSubGroupUpdaterInsertsParent(prevItems, prevKeys, parentId, newId) ==
    LET created == PutItem([items |-> prevItems, keys |-> prevKeys], newId,
                       [index |-> newId, isFolder |-> TRUE, children |-> <<>>,
                        data |-> [name |-> "New Group", type |-> "Division"],
                        canMove |-> TRUE, canRename |-> TRUE])
    IN  IF parentId \in DOMAIN created.items
        THEN LET parentItem == SetField(created.items[parentId], "isFolder", TRUE)
                 old == IF HasChildren(parentItem) THEN parentItem.children ELSE <<>>
             IN  PutItem(created, parentId,
                         SetField(parentItem, "children", <<parentId>> \o old))
        ELSE created

\* Variant: the new id is inserted only into a children array that exists.
handleAddSubGroupUpdaterNoConversion(prevItems, prevKeys, parentId, newId) ==
    LET created == PutItem([items |-> prevItems, keys |-> prevKeys], newId,
                       [index |-> newId, isFolder |-> TRUE, children |-> <<>>,
                        data |-> [name |-> "New Group", type |-> "Division"],
                        canMove |-> TRUE, canRename |-> TRUE])
    IN  IF parentId \in DOMAIN created.items
        THEN LET parentItem == SetField(created.items[parentId], "isFolder", TRUE)
             IN  IF HasChildren(parentItem)
                 THEN PutItem(created, parentId,
                          SetField(parentItem, "children",
                                   <<newId>> \o parentItem.children))
                 ELSE PutItem(created, parentId, parentItem)
        ELSE created

handleAddSubGroupUpdater(prevItems, prevKeys, parentId, newId) ==
    LET created == PutItem([items |-> prevItems, keys |-> prevKeys], newId,
                       [index |-> newId, isFolder |-> TRUE, children |-> <<>>,
                        data |-> [name |-> "New Group", type |-> "Division"],
                        canMove |-> TRUE, canRename |-> TRUE])
    IN  IF parentId \in DOMAIN created.items
        THEN LET parentItem == SetField(created.items[parentId], "isFolder", TRUE)
                 old == IF HasChildren(parentItem) THEN parentItem.children ELSE <<>>
             IN  PutItem(created, parentId,
                         SetField(parentItem, "children", <<newId>> \o old))
        ELSE created

\* The microtask that handleAddSubGroup queues, and its animation frame; st
\* is the map that has been rendered when they run.
handleAddSubGroupFollowUp(st, parentId, newId) ==
    IF treeRefCurrent(st.items, showEmptyState)
    THEN [emitted |-> {<<parentId, newId>>}, expand |-> {parentId},
          rename |-> {newId}]
    ELSE NoFollowUp

handleAddSubGroup(parentId) ==
    LET newId == parentId \o "-subgroup-" \o ToString(now)
        st == handleAddSubGroupUpdater(items, keys, parentId, newId)
    IN  CommitWith(st, "addSubGroup", parentId, newId,
                   handleAddSubGroupFollowUp(st, parentId, newId), showEmptyState)

\* ------------------------------------------------------------------------
\* deepCopyItem
\* ------------------------------------------------------------------------
\* The recursion threads st = [items, keys, rs]: the object allItems that the
\* calls write to, and rs, the outcomes of Math.floor(Math.random() * 1000) in
\* the order the calls draw them.  The result is [newItem, st].
RECURSIVE deepCopyItem(_, _, _, _)
RECURSIVE deepCopyChildren(_, _, _, _, _, _)

\* item.children.forEach(...) from the i-th child on
deepCopyChildren(children, i, newItem, newId, st, clock) ==
    IF i > Len(children)
    THEN [newItem |-> newItem, st |-> st]
    ELSE LET childId == children[i]
         IN  IF childId \in DOMAIN st.items
             THEN LET newChildId == newId \o "-" \o childId \o "-"
                                        \o ToString(clock + Head(st.rs))
                      copy == deepCopyItem(st.items[childId], newChildId,
                                           [st EXCEPT !.rs = Tail(@)], clock)
                      stored == PutItem(copy.st, newChildId, copy.newItem)
                  IN  deepCopyChildren(children, i + 1,
                          [newItem EXCEPT !.children = Append(@, newChildId)],
                          newId, stored, clock)
             ELSE deepCopyChildren(children, i + 1, newItem, newId, st, clock)

\* Variant: a shallow copy, whose children are the children of the original.
deepCopyItemShallow(item, newId, st, clock) ==
    LET newItem == [index |-> newId, isFolder |-> item.isFolder,
                    data |-> [name |-> item.data.name \o " (Copy)",
                              type |-> item.data.type],
                    canMove |-> TRUE, canRename |-> TRUE]
    IN  IF HasChildren(item) /\ Len(item.children) > 0
        THEN [newItem |-> SetField(newItem, "children", item.children), st |-> st]
        ELSE [newItem |-> newItem, st |-> st]

\* Variant: the name is copied without the copy marker.
deepCopyItemPlainName(item, newId, st, clock) ==
    LET newItem == [index |-> newId, isFolder |-> item.isFolder,
                    data |-> [name |-> item.data.name, type |-> item.data.type],
                    canMove |-> TRUE, canRename |-> TRUE]
    IN  IF HasChildren(item) /\ Len(item.children) > 0
        THEN deepCopyChildren(item.children, 1,
                              SetField(newItem, "children", <<>>), newId, st, clock)
        ELSE [newItem |-> newItem, st |-> st]

deepCopyItem(item, newId, st, clock) ==
    LET newItem == [index |-> newId, isFolder |-> item.isFolder,
                    data |-> [name |-> item.data.name \o " (Copy)",
                              type |-> item.data.type],
                    canMove |-> TRUE, canRename |-> TRUE]
    IN  IF HasChildren(item) /\ Len(item.children) > 0
        THEN deepCopyChildren(item.children, 1,
                              SetField(newItem, "children", <<>>), newId, st, clock)
        ELSE [newItem |-> newItem, st |-> st]

\* The number of random draws deepCopyItem makes for the item: one for each
\* child that exists, plus those of the child's own copy.
RECURSIVE Draws(_, _)
Draws(its, item) ==
    LET RECURSIVE sum(_)
        sum(i) == IF i > Len(item.children) THEN 0
                  ELSE (IF item.children[i] \in DOMAIN its
                        THEN 1 + Draws(its, its[item.children[i]])
                        ELSE 0) + sum(i + 1)
    IN  IF HasChildren(item) THEN sum(1) ELSE 0

\* ------------------------------------------------------------------------
\* handleDuplicate
\* ------------------------------------------------------------------------
\* Variant: the clone is appended to the children of the parent.
handleDuplicateUpdaterAppends(prevItems, prevKeys, itemId, newId, rs, clock) ==
    LET newItems == [items |-> prevItems, keys |-> prevKeys]
        parentIdx == FindParent(prevItems, prevKeys, itemId)
    IN  IF parentIdx # 0 /\ itemId \in DOMAIN prevItems
        THEN LET parentId == prevKeys[parentIdx]
                 copy == deepCopyItem(prevItems[itemId], newId,
                             [items |-> prevItems, keys |-> prevKeys, rs |-> rs],
                             clock)
                 copied == PutItem([items |-> copy.st.items, keys |-> copy.st.keys],
                                   newId, copy.newItem)
                 parentItem == copied.items[parentId]
             IN  IF HasChildren(parentItem)
                 THEN PutItem(copied, parentId,
                          SetField(parentItem, "children",
                                   Append(parentItem.children, newId)))
                 ELSE copied
        ELSE newItems

handleDuplicateUpdater(prevItems, prevKeys, itemId, newId, rs, clock) ==
    LET newItems == [items |-> prevItems, keys |-> prevKeys]
        parentIdx == FindParent(prevItems, prevKeys, itemId)
    IN  IF parentIdx # 0 /\ itemId \in DOMAIN prevItems
        THEN LET parentId == prevKeys[parentIdx]
                 copy == deepCopyItem(prevItems[itemId], newId,
                             [items |-> prevItems, keys |-> prevKeys, rs |-> rs],
                             clock)
                 copied == PutItem([items |-> copy.st.items, keys |-> copy.st.keys],
                                   newId, copy.newItem)
                 parentItem == copied.items[parentId]
             IN  IF HasChildren(parentItem)
                 THEN LET originalIndex == IndexOf(parentItem.children, itemId)
                      IN  PutItem(copied, parentId,
                              SetField(parentItem, "children",
                                  Splice(parentItem.children, originalIndex, newId)))
                 ELSE copied
        ELSE newItems

\* Variant: the follow-up runs for every duplicate call, on the parent or,
\* without one, on the item itself.
handleDuplicateFollowUpAlways(closureItems, closureKeys, st, itemId, newId) ==
    LET parentIdx == FindParent(closureItems, closureKeys, itemId)
        parentId == IF parentIdx # 0 THEN closureKeys[parentIdx] ELSE itemId
    IN  IF treeRefCurrent(st.items, showEmptyState)
        THEN [emitted |-> {<<parentId, newId>>}, expand |-> {parentId},
              rename |-> {newId}]
        ELSE NoFollowUp

\* The microtask that handleDuplicate queues, and its animation frame.  The
\* parent is looked up in the items of the closure of the handler, the map of
\* the render before the call; st is the map that has been rendered when the
\* microtask runs.
handleDuplicateFollowUp(closureItems, closureKeys, st, itemId, newId) ==
    LET parentIdx == FindParent(closureItems, closureKeys, itemId)
    IN  IF parentIdx # 0 /\ treeRefCurrent(st.items, showEmptyState)
        THEN [emitted |-> {<<closureKeys[parentIdx], newId>>},
              expand |-> {closureKeys[parentIdx]}, rename |-> {newId}]
        ELSE NoFollowUp

handleDuplicate(itemId) ==
    LET newId == itemId \o "-copy-" \o ToString(now)
        n == IF FindParent(items, keys, itemId) # 0 THEN Draws(items, items[itemId])
             ELSE 0
    IN  \E rs \in [1..n -> 0..(MaxRand - 1)] :
            LET st == handleDuplicateUpdater(items, keys, itemId, newId, rs, now)
            IN  CommitWith(st, "duplicate", itemId, newId,
                           handleDuplicateFollowUp(items, keys, st, itemId, newId),
                           showEmptyState)

\* ------------------------------------------------------------------------
\* handleRenameItem, handleEditItem
\* ------------------------------------------------------------------------
\* Variant: the renamed item is built from index and data alone, without the
\* spread of the item.
handleRenameItemUpdaterWithoutSpread(prevItems, prevKeys, index, newName) ==
    LET newItems == [items |-> prevItems, keys |-> prevKeys]
    IN  IF index \in DOMAIN prevItems
        THEN PutItem(newItems, index,
                 [index |-> index,
                  isFolder |-> prevItems[index].isFolder,
                  data |-> [prevItems[index].data EXCEPT !.name = newName]])
        ELSE newItems

handleRenameItemUpdater(prevItems, prevKeys, index, newName) ==
    LET newItems == [items |-> prevItems, keys |-> prevKeys]
    IN  IF index \in DOMAIN prevItems
        THEN PutItem(newItems, index,
                 [prevItems[index] EXCEPT !.data = [@ EXCEPT !.name = newName]])
        ELSE newItems

handleRenameItem(index, newName) ==
    Commit(handleRenameItemUpdater(items, keys, index, newName),
           "rename", index, "")

handleEditItemUpdater(prevItems, prevKeys, itemId, name, type) ==
    LET newItems == [items |-> prevItems, keys |-> prevKeys]
    IN  IF itemId \in DOMAIN prevItems
        THEN PutItem(newItems, itemId,
                 [prevItems[itemId] EXCEPT
                     !.data = [@ EXCEPT !.name = name, !.type = type]])
        ELSE newItems

handleEditItem(itemId, name, type) ==
    Commit(handleEditItemUpdater(items, keys, itemId, name, type),
           "edit", itemId, "")

\* ------------------------------------------------------------------------
\* handleItemDrop, for a drop on an item (target.targetType === 'item')
\* ------------------------------------------------------------------------
handleItemDropUpdater(prevItems, prevKeys, targetItemId) ==
    LET newItems == [items |-> prevItems, keys |-> prevKeys]
    IN  IF targetItemId \in DOMAIN prevItems
        THEN LET targetItem == prevItems[targetItemId]
                 withChildren == IF ~HasChildren(targetItem)
                                 THEN SetField(targetItem, "children", <<>>)
                                 ELSE targetItem
                 asFolder == IF ~withChildren.isFolder
                             THEN SetField(withChildren, "isFolder", TRUE)
                             ELSE withChildren
             IN  PutItem(newItems, targetItemId, asFolder)
        ELSE newItems

\* The microtask that the updater of handleItemDrop queues when
\* needsConversion holds.
handleItemDropFollowUp(prevItems, st, targetItemId) ==
    IF targetItemId \in DOMAIN prevItems /\ ~HasChildren(prevItems[targetItemId])
    THEN [emitted |-> {<<targetItemId>>},
          expand |-> IF treeRefCurrent(st.items, showEmptyState)
                     THEN {targetItemId} ELSE {},
          rename |-> {}]
    ELSE NoFollowUp

handleItemDrop(targetItemId) ==
    LET st == handleItemDropUpdater(items, keys, targetItemId)
    IN  CommitWith(st, "drop", targetItemId, "",
                   handleItemDropFollowUp(items, st, targetItemId), showEmptyState)

\* ------------------------------------------------------------------------
\* The calls of the handlers
\* ------------------------------------------------------------------------
\* CreateGroupModal onSave
CreateGroupSaved ==
    /\ nOps < MaxOps
    /\ \E name \in NewNames, type \in NewTypes :
           handleCreateTopLevelGroup(name, type)

\* Context menu: Add Sub-Group
AddSubGroupClicked ==
    /\ nOps < MaxOps
    /\ \E id \in Targets : handleAddSubGroup(id)

\* Context menu: Delete
DeleteClicked ==
    /\ nOps < MaxOps
    /\ \E id \in Targets : handleDelete(id)

\* Context menu: Duplicate
DuplicateClicked ==
    /\ nOps < MaxOps
    /\ \E id \in Targets : handleDuplicate(id)

\* onRenameItem, and the rename input of RenamingItem
ItemRenamed ==
    /\ nOps < MaxOps
    /\ \E id \in Targets, name \in NewNames : handleRenameItem(id, name)

\* EditModal onSave
EditSaved ==
    /\ nOps < MaxOps
    /\ \E id \in Targets, name \in NewNames, type \in NewTypes :
           handleEditItem(id, name, type)

\* onDrop
ItemDropped ==
    /\ nOps < MaxOps
    /\ \E id \in Targets : handleItemDrop(id)

Next ==
    \/ Tick
    \/ CreateGroupSaved
    \/ AddSubGroupClicked
    \/ DeleteClicked
    \/ DuplicateClicked
    \/ ItemRenamed
    \/ EditSaved
    \/ ItemDropped

Spec == Init /\ [][Next]_vars

\* ------------------------------------------------------------------------
\* Vocabulary of the properties
\* ------------------------------------------------------------------------
\* The number of positions, over all children arrays of its, that hold id.
RECURSIVE Occurrences(_, _, _)
Occurrences(its, S, id) ==
    IF S = {} THEN 0
    ELSE LET k == CHOOSE x \in S : TRUE
         IN  Cardinality({i \in 1..Len(ChildrenOf(its, k)) :
                              ChildrenOf(its, k)[i] = id})
             + Occurrences(its, S \ {k}, id)

\* The last call was a delete of a non-root id that was in the map.  (The
\* handlers are called on rendered items, see Targets.)
Deleted == last.op = "delete" /\ last.id # "root" /\ last.id \in DOMAIN last.prev

\* The last call was a duplicate of a non-root id that was in the map.
Duplicated ==
    last.op = "duplicate" /\ last.id # "root" /\ last.id \in DOMAIN last.prev

\* The parent of the id of the last call, in the previous state.
PrevParent == last.prevKeys[FindParent(last.prev, last.prevKeys, last.id)]

\* C1: deleting a non-root node n that is present removes from the map n and
\* every descendant of n, and no other id; afterwards no removed id is a key of
\* the map or a member of a children array.
C1_DeleteRemovesSubtree ==
    Deleted =>
        LET removed == Subtree(last.prev, last.id)
        IN  /\ DOMAIN items = (DOMAIN last.prev) \ removed
            /\ \A k \in DOMAIN items : ChildSet(items, k) \cap removed = {}

\* C2: every id of the map other than 'root' occurs in the children arrays of
\* the map exactly once: in one array, at one position.
C2_SingleParent ==
    \A id \in (DOMAIN items) \ {"root"} :
        Occurrences(items, DOMAIN items, id) = 1

\* C3: every id listed in the children of some item is a key of the map.
C3_ReferentialIntegrity ==
    \A k \in DOMAIN items : ChildSet(items, k) \subseteq DOMAIN items

\* C3 witness: a container with children has been deleted.
C3_Witness ==
    /\ Deleted
    /\ last.id \notin DOMAIN items
    /\ Len(ChildrenOf(last.prev, last.id)) > 0

\* C4: no id is reached from itself by following children one or more times.
C4_Acyclic ==
    \A k \in DOMAIN items : k \notin Descendants(items, k)

\* C4 witness: a sub-group has been added below an item that the run created,
\* so that a chain of created items hangs in the tree.
C4_Witness ==
    /\ last.op = "addSubGroup"
    /\ last.id \notin DOMAIN leagueStructure
    /\ last.newId \in Descendants(items, "root")

\* The clone c is a copy, made of new ids, of the original o: c is in the map
\* and outside the set S of original ids, and its children are, position by
\* position, such copies of the children of o.
RECURSIVE FreshCopy(_, _, _)
FreshCopy(o, c, S) ==
    /\ c \in DOMAIN items
    /\ c \notin S
    /\ Len(ChildrenOf(items, c)) = Len(ChildrenOf(last.prev, o))
    /\ \A i \in 1..Len(ChildrenOf(items, c)) :
           i <= Len(ChildrenOf(last.prev, o)) =>
               FreshCopy(ChildrenOf(last.prev, o)[i], ChildrenOf(items, c)[i], S)

\* C5: duplicating a non-root node n gives a new id to every node of the
\* subtree of n: the ids of the clone subtree are disjoint from the ids of the
\* original subtree, and every child reference inside the clone subtree is to a
\* clone node, never to an original node.
C5_CloneHasFreshIds ==
    Duplicated =>
        LET original == Subtree(last.prev, last.id)
            clone == Subtree(items, last.newId)
        IN  /\ FreshCopy(last.id, last.newId, original)
            /\ clone \cap original = {}
            /\ \A c \in clone : ChildSet(items, c) \cap original = {}

\* C5 witness: a subtree of depth two has been duplicated.
C5_Witness ==
    /\ Duplicated
    /\ \E c \in ChildSet(items, last.newId) : Len(ChildrenOf(items, c)) > 0

\* The names below the clone c are the names below the original o.
RECURSIVE SameNames(_, _)
SameNames(o, c) ==
    /\ c \in DOMAIN items
    /\ items[c].data.name = last.prev[o].data.name
    /\ \A i \in 1..Len(ChildrenOf(items, c)) :
           i <= Len(ChildrenOf(last.prev, o)) =>
               SameNames(ChildrenOf(last.prev, o)[i], ChildrenOf(items, c)[i])

\* C6, as claimed: after duplicating n the name of the clone root is the name
\* of n followed by " (Copy)", and every descendant of the clone has exactly
\* the name of the descendant of n it was copied from.
C6_MarkerOnRootOnly ==
    Duplicated =>
        /\ last.newId \in DOMAIN items
        /\ items[last.newId].data.name = last.prev[last.id].data.name \o " (Copy)"
        /\ \A i \in 1..Len(ChildrenOf(items, last.newId)) :
               i <= Len(ChildrenOf(last.prev, last.id)) =>
                   SameNames(ChildrenOf(last.prev, last.id)[i],
                             ChildrenOf(items, last.newId)[i])

\* The name of the clone c is the name of the original o followed by the copy
\* marker, and so on for their children, position by position.
RECURSIVE MarkedNames(_, _)
MarkedNames(o, c) ==
    /\ c \in DOMAIN items
    /\ items[c].data.name = last.prev[o].data.name \o " (Copy)"
    /\ \A i \in 1..Len(ChildrenOf(items, c)) :
           i <= Len(ChildrenOf(last.prev, o)) =>
               MarkedNames(ChildrenOf(last.prev, o)[i], ChildrenOf(items, c)[i])

\* C6, amended: after duplicating n the name of every node of the clone
\* subtree, the root and each descendant, is the name of the node of the
\* subtree of n it was copied from followed by " (Copy)".
C6_MarkerOnEveryCopy ==
    Duplicated => MarkedNames(last.id, last.newId)

\* C6 witness: the duplicated node had a child, which was copied.
C6_Witness ==
    /\ Duplicated
    /\ Len(ChildrenOf(last.prev, last.id)) > 0
    /\ Len(ChildrenOf(items, last.newId)) > 0

\* The clone c has the type of the original o, is a container exactly if o is
\* one, has as many children, and so on for the children in their order.
RECURSIVE Isomorphic(_, _)
Isomorphic(o, c) ==
    /\ c \in DOMAIN items
    /\ items[c].data.type = last.prev[o].data.type
    /\ HasChildren(items[c]) <=> HasChildren(last.prev[o])
    /\ Len(ChildrenOf(items, c)) = Len(ChildrenOf(last.prev, o))
    /\ \A i \in 1..Len(ChildrenOf(items, c)) :
           i <= Len(ChildrenOf(last.prev, o)) =>
               Isomorphic(ChildrenOf(last.prev, o)[i], ChildrenOf(items, c)[i])

\* C7: after duplicating n the clone subtree is isomorphic to the subtree of
\* n: node by node the same category, the same number and order of children and
\* the same leaf/container status, a container with an empty children array
\* included.
C7_CloneIsomorphic ==
    Duplicated => Isomorphic(last.id, last.newId)

\* C8: duplicating a non-root node n inserts the id of the clone into the
\* children of the parent of n at the position right after n; the other entries
\* keep their order.
C8_CloneInsertedAfterOriginal ==
    Duplicated =>
        LET before == ChildrenOf(last.prev, PrevParent)
            after == ChildrenOf(items, PrevParent)
        IN  /\ Len(after) = Len(before) + 1
            /\ \E i \in 1..Len(before) :
                   /\ before[i] = last.id
                   /\ after[i + 1] = last.newId
                   /\ \A j \in 1..i : after[j] = before[j]
                   /\ \A j \in (i + 1)..Len(before) : after[j + 1] = before[j]

\* C8 witness: the duplicated node was not the last child of its parent.
C8_Witness ==
    /\ Duplicated
    /\ LET before == ChildrenOf(last.prev, PrevParent)
       IN  before[Len(before)] # last.id

\* No children array of the map holds an id at two positions.
NoRepeatedChild ==
    \A k \in DOMAIN items :
        \A i, j \in 1..Len(ChildrenOf(items, k)) :
            ChildrenOf(items, k)[i] = ChildrenOf(items, k)[j] => i = j

\* C9: the id given to a new node by create-top-level-group, add-sub-group or
\* duplicate is not an id of the map, also when two calls read the same clock
\* value, so that no node is overwritten and no id is put twice into a children
\* array.
C9_NewIdsAreFresh ==
    /\ (\/ last.op \in {"create", "addSubGroup"}
        \/ Duplicated) => last.newId \notin DOMAIN last.prev
    /\ NoRepeatedChild

\* C10: when add-sub-group is called on, or a drop lands on, an item whose
\* children are absent, the item has children afterwards; for add-sub-group
\* they are exactly [newId].
C10_FolderConversion ==
    /\ last.op \in {"addSubGroup", "drop"}
    /\ last.id \in DOMAIN last.prev
    /\ ~HasChildren(last.prev[last.id])
    => /\ last.id \in DOMAIN items
       /\ HasChildren(items[last.id])
       /\ last.op = "addSubGroup" => items[last.id].children = <<last.newId>>

\* C10 witness: a sub-group has been added to a leaf.
C10_Witness ==
    /\ last.op = "addSubGroup"
    /\ last.id \in DOMAIN last.prev
    /\ ~HasChildren(last.prev[last.id])
    /\ last.newId \in ChildSet(items, last.id)

\* C11: for every item of the map, isFolder is true exactly if the children
\* of the item are defined.
C11_FolderFlagDerived ==
    \A k \in DOMAIN items : items[k].isFolder <=> HasChildren(items[k])

\* ------------------------------------------------------------------------
\* Longer runs on one team and on the items made from it
\* ------------------------------------------------------------------------
\* Number of handler calls in one such run.
MaxBurst == 3

\* The team 'team-8u-1' and the rendered items that the run created.
BurstTargets ==
    {k \in Targets : k = "team-8u-1" \/ k \notin DOMAIN leagueStructure}

\* Context menu: Duplicate
DuplicateClickedAgain ==
    /\ nOps < MaxBurst
    /\ \E id \in BurstTargets : handleDuplicate(id)

\* Context menu: Add Sub-Group
AddSubGroupClickedAgain ==
    /\ nOps < MaxBurst
    /\ \E id \in BurstTargets : handleAddSubGroup(id)

\* Context menu: Delete
DeleteClickedAgain ==
    /\ nOps < MaxBurst
    /\ \E id \in BurstTargets : handleDelete(id)

NextBurst ==
    \/ Tick
    \/ DuplicateClickedAgain
    \/ AddSubGroupClickedAgain
    \/ DeleteClickedAgain

SpecBurst == Init /\ [][NextBurst]_vars

\* C12: an item whose children are defined keeps children defined in the next
\* state, as long as the item stays in the map.
C12_ContainerStaysContainer ==
    [][\A k \in (DOMAIN items) \cap (DOMAIN items') :
           HasChildren(items[k]) => HasChildren(items'[k])]_vars

\* ------------------------------------------------------------------------
\* Calls of the handlers with an id that is not in the map
\* ------------------------------------------------------------------------
\* Ids that are not keys of the map: an id that never was one, and the ids of
\* Focus that have been deleted.
AbsentIds == ({"ghost"} \cup Focus) \ DOMAIN items

AddSubGroupCalledOnAbsent ==
    /\ nOps < MaxOps
    /\ \E id \in AbsentIds : handleAddSubGroup(id)

DeleteCalledOnAbsent ==
    /\ nOps < MaxOps
    /\ \E id \in AbsentIds : handleDelete(id)

DuplicateCalledOnAbsent ==
    /\ nOps < MaxOps
    /\ \E id \in AbsentIds : handleDuplicate(id)

RenameCalledOnAbsent ==
    /\ nOps < MaxOps
    /\ \E id \in AbsentIds, name \in NewNames : handleRenameItem(id, name)

EditCalledOnAbsent ==
    /\ nOps < MaxOps
    /\ \E id \in AbsentIds, name \in NewNames, type \in NewTypes :
           handleEditItem(id, name, type)

NextDirect ==
    \/ Tick
    \/ CreateGroupSaved
    \/ AddSubGroupClicked
    \/ DeleteClicked
    \/ DuplicateClicked
    \/ ItemRenamed
    \/ EditSaved
    \/ ItemDropped
    \/ AddSubGroupCalledOnAbsent
    \/ DeleteCalledOnAbsent
    \/ DuplicateCalledOnAbsent
    \/ RenameCalledOnAbsent
    \/ EditCalledOnAbsent

SpecDirect == Init /\ [][NextDirect]_vars

\* C13: an add-sub-group, delete, duplicate, rename or edit call on an id that
\* is not a key of the map leaves the map as it was: the same keys, the same
\* items.
C13_AbsentTargetLeavesMap ==
    /\ last.op \in {"addSubGroup", "delete", "duplicate", "rename", "edit"}
    /\ last.id \notin DOMAIN last.prev
    => /\ items = last.prev
       /\ keys = last.prevKeys

\* C14, as claimed: a delete call on 'root' reports the error RootDeletion to
\* its caller and leaves the map as it was.
C14_RootDeletionReported ==
    last.op = "delete" /\ last.id = "root"
    => /\ last.error = "RootDeletion"
       /\ items = last.prev
       /\ keys = last.prevKeys

\* C14, amended: a delete call on 'root' leaves the map as it was, 'root'
\* included, and reports nothing to its caller.
C14_RootDeletionIsSilentNoOp ==
    last.op = "delete" /\ last.id = "root"
    => /\ last.error = NoError
       /\ "root" \in DOMAIN items
       /\ items = last.prev
       /\ keys = last.prevKeys

\* C14 witness: delete has been called on 'root' while the root had children.
C14_Witness ==
    /\ last.op = "delete"
    /\ last.id = "root"
    /\ Len(ChildrenOf(last.prev, "root")) > 0

\* C15: a duplicate call on 'root' is disallowed in every state: it adds no
\* key and changes no item, so no children array changes, and its follow-up
\* expands no item and starts no renaming.
C15_RootDuplicationDisallowed ==
    last.op = "duplicate" /\ last.id = "root"
    => /\ items = last.prev
       /\ keys = last.prevKeys
       /\ last.expand = {}
       /\ last.rename = {}

\* C15 witness: duplicate has been called on 'root' with the tree rendered,
\* so that treeRef.current was set when the follow-up ran.
C15_Witness ==
    /\ last.op = "duplicate"
    /\ last.id = "root"
    /\ treeRefCurrent(items, showEmptyState)

\* ------------------------------------------------------------------------
\* Strings
\* ------------------------------------------------------------------------
\* The letters that toLowerCase changes, and the letters it makes of them.
UpperCaseLetters == "ABCDEFGHIJKLMNOPQRSTUVWXYZ"
LowerCaseLetters == "abcdefghijklmnopqrstuvwxyz"

\* s.charAt(i - 1)
CharAt(s, i) == SubSeq(s, i, i)

\* The lower-case letter of every upper-case letter
LowerCaseOf ==
    [c \in {CharAt(UpperCaseLetters, i) : i \in 1..Len(UpperCaseLetters)} |->
        CharAt(LowerCaseLetters,
               CHOOSE i \in 1..Len(UpperCaseLetters) : CharAt(UpperCaseLetters, i) = c)]

\* c.toLowerCase() for a string c of one character
toLowerCaseChar(c) == IF c \in DOMAIN LowerCaseOf THEN LowerCaseOf[c] ELSE c

\* s.toLowerCase()
RECURSIVE toLowerCase(_)
toLowerCase(s) ==
    IF Len(s) = 0 THEN ""
    ELSE toLowerCaseChar(CharAt(s, 1)) \o toLowerCase(SubSeq(s, 2, Len(s)))

\* s.includes(q)
StringIncludes(s, q) ==
    \E i \in 1..(Len(s) - Len(q) + 1) : SubSeq(s, i, i + Len(q) - 1) = q

\* Variant: the name is searched as it is written.
nameIncludesCaseSensitive(name, term) == StringIncludes(name, term)

\* name.toLowerCase().includes(term.toLowerCase())
nameIncludes(name, term) == StringIncludes(toLowerCase(name), toLowerCase(term))

\* ------------------------------------------------------------------------
\* Search
\* ------------------------------------------------------------------------
\* The texts typed into the search input.
Queries == {"", "W", "u"}

\* doesSearchMatchItem of the tree environment
doesSearchMatchItem(searchText, item) ==
    IF searchText = "" \/ item.data.name = "" THEN FALSE
    ELSE nameIncludes(item.data.name, searchText)

\* matchesSearch of renderItemTitle
matchesSearch(term, item) ==
    IF term # "" THEN nameIncludes(item.data.name, term) ELSE FALSE

RECURSIVE hasMatchingChildren(_, _, _)

\* Variant: only the children of the item are tested, not their descendants.
hasMatchingChildrenDirectOnly(its, itemId, term) ==
    IF term = "" THEN FALSE
    ELSE IF \/ itemId \notin DOMAIN its
            \/ ~HasChildren(its[itemId])
            \/ Len(its[itemId].children) = 0
         THEN FALSE
         ELSE \E i \in 1..Len(its[itemId].children) :
                  LET childId == its[itemId].children[i]
                  IN  /\ childId \in DOMAIN its
                      /\ nameIncludes(its[childId].data.name, term)

hasMatchingChildren(its, itemId, term) ==
    IF term = "" THEN FALSE
    ELSE IF \/ itemId \notin DOMAIN its
            \/ ~HasChildren(its[itemId])
            \/ Len(its[itemId].children) = 0
         THEN FALSE
         ELSE \E i \in 1..Len(its[itemId].children) :
                  LET childId == its[itemId].children[i]
                  IN  /\ childId \in DOMAIN its
                      /\ \/ nameIncludes(its[childId].data.name, term)
                         \/ hasMatchingChildren(its, childId, term)

\* childrenMatchSearch of renderItemTitle
childrenMatchSearch(its, term, item) ==
    IF term # "" /\ HasChildren(item) /\ Len(item.children) > 0
    THEN hasMatchingChildren(its, item.index, term)
    ELSE FALSE

\* The members of an array
Range(s) == {s[i] : i \in 1..Len(s)}

\* folderItems of handleSearch
folderItems(its, ks) ==
    SelectSeq(ks, LAMBDA id : HasChildren(its[id]) /\ Len(its[id].children) > 0)

\* Variant: every folder item is taken, whether or not it holds a match.
foldersWithMatchesUnfiltered(its, ks, value) == folderItems(its, ks)

\* foldersWithMatches of handleSearch
foldersWithMatches(its, ks, value) ==
    SelectSeq(folderItems(its, ks), LAMBDA id : hasMatchingChildren(its, id, value))

\* directMatches of handleSearch
directMatches(its, ks, value) ==
    SelectSeq(ks, LAMBDA id : nameIncludes(its[id].data.name, value))

\* firstChildMatch of handleSearch, as a set: empty for null
firstChildMatch(its, ks, value) ==
    LET folders == foldersWithMatches(its, ks, value)
        hits(f) == {i \in 1..Len(its[folders[f]].children) :
                       LET childId == its[folders[f]].children[i]
                       IN  /\ childId \in DOMAIN its
                           /\ nameIncludes(its[childId].data.name, value)}
        withHit == {f \in 1..Len(folders) : hits(f) # {}}
    IN  IF withHit = {} THEN {}
        ELSE LET f == CHOOSE x \in withHit : \A y \in withHit : x <= y
                 i == CHOOSE x \in hits(f) : \A y \in hits(f) : x <= y
             IN  {its[folders[f]].children[i]}

\* firstMatchId of the timer of handleSearch, as a set: empty for null
firstMatchId(its, ks, value) ==
    IF Len(directMatches(its, ks, value)) > 0
    THEN {directMatches(its, ks, value)[1]}
    ELSE firstChildMatch(its, ks, value)

\* handleSearch for the input value, with the render after setSearchTerm and
\* the timer that picks the scroll target.
handleSearch(value) ==
    LET mounted == treeRefCurrent(items, showEmptyState)
        opened == IF mounted /\ value # ""
                  THEN Range(foldersWithMatches(items, keys, value)) ELSE {}
        closed == IF mounted /\ value = ""
                  THEN (DOMAIN items) \ defaultExpanded ELSE {}
    IN  /\ searchTerm' = value
        /\ expandedItems' = (expandedItems \cup opened) \ closed
        /\ last' = [op |-> "search", id |-> value, newId |-> "",
                    prev |-> items, prevKeys |-> keys,
                    emitted |-> {useEffectEmit(items, keys, keys)},
                    expand |-> opened, rename |-> {},
                    scroll |-> IF mounted /\ value # ""
                               THEN firstMatchId(items, keys, value) ELSE {},
                    error |-> NoError]
        /\ UNCHANGED <<items, keys, now, nOps, showEmptyState, jobs>>

\* clearSearch, with the render after setSearchTerm
clearSearch ==
    LET mounted == treeRefCurrent(items, showEmptyState)
        opened == IF mounted THEN (DOMAIN items) \cap defaultExpanded ELSE {}
        closed == IF mounted THEN (DOMAIN items) \ defaultExpanded ELSE {}
    IN  /\ searchTerm' = ""
        /\ expandedItems' = (expandedItems \cup opened) \ closed
        /\ last' = [op |-> "clearSearch", id |-> "", newId |-> "",
                    prev |-> items, prevKeys |-> keys,
                    emitted |-> {useEffectEmit(items, keys, keys)},
                    expand |-> opened, rename |-> {}, scroll |-> {},
                    error |-> NoError]
        /\ UNCHANGED <<items, keys, now, nOps, showEmptyState, jobs>>

\* toggleEmptyState, with the render after setShowEmptyState
toggleEmptyState ==
    /\ showEmptyState' = ~showEmptyState
    /\ expandedItems' = ViewStateAfter(items, ~showEmptyState, expandedItems)
    /\ last' = [op |-> "toggleEmptyState", id |-> "", newId |-> "",
                prev |-> items, prevKeys |-> keys,
                emitted |-> {useEffectEmit(items, keys, keys)},
                expand |-> {}, rename |-> {}, scroll |-> {}, error |-> NoError]
    /\ UNCHANGED <<items, keys, now, nOps, searchTerm, jobs>>

\* Number of calls of the handlers that change the map, in a run with search.
MaxEdits == 1

\* The values of the rename input when Enter is pressed: Enter also submits
\* the empty input.
RenameInputs == NewNames \cup {""}

\* A call of a handler that changes the map
ItemsEdited ==
    /\ nOps < MaxEdits
    /\ \/ \E name \in NewNames, type \in NewTypes :
              handleCreateTopLevelGroup(name, type)
       \/ \E id \in Targets :
              \/ handleAddSubGroup(id)
              \/ handleDelete(id)
              \/ handleDuplicate(id)
              \/ handleItemDrop(id)
              \/ \E name \in RenameInputs : handleRenameItem(id, name)
              \/ \E name \in NewNames, type \in NewTypes :
                     handleEditItem(id, name, type)

\* onChange of the search input
SearchChanged == \E value \in Queries \ {searchTerm} : handleSearch(value)

\* The clear button, rendered while searchTerm is not empty
SearchCleared == searchTerm # "" /\ clearSearch

NextSearch ==
    \/ ItemsEdited
    \/ SearchChanged
    \/ SearchCleared
    \/ toggleEmptyState

SpecSearch == Init /\ [][NextSearch]_vars

\* ------------------------------------------------------------------------
\* Vocabulary of the search properties
\* ------------------------------------------------------------------------
\* The pairs of an upper-case letter and its lower-case letter.
LetterPairs ==
    {<<CharAt(UpperCaseLetters, i), CharAt(LowerCaseLetters, i)>> :
        i \in 1..Len(UpperCaseLetters)}

\* a and b are the same character, or the same letter in two cases.
SameLetter(a, b) == a = b \/ <<a, b>> \in LetterPairs \/ <<b, a>> \in LetterPairs

\* q occurs in name at some position, character by character up to case.
ContainsIgnoringCase(name, q) ==
    \E i \in 1..(Len(name) - Len(q) + 1) :
        \A j \in 1..Len(q) : SameLetter(CharAt(name, i + j - 1), CharAt(q, j))

\* C17: for every item n and query q, hasMatchingChildren(n, q) is true
\* exactly if q is not empty and the name of some descendant of n (a child, a
\* grandchild, ...; n itself is not one) contains q up to case.
C17_ContainsMatch ==
    \A n \in DOMAIN items, q \in Queries :
        hasMatchingChildren(items, n, q)
        <=> /\ q # ""
            /\ \E d \in Descendants(items, n) \cap DOMAIN items :
                   ContainsIgnoringCase(items[d].data.name, q)

\* C17 witness: a search has expanded an item because of a match that is
\* below its children, none of which matches.
C17_Witness ==
    /\ last.op = "search"
    /\ \E n \in last.expand : ~hasMatchingChildrenDirectOnly(items, n, searchTerm)

\* C18: for every item and query, the direct match of the title renderer and
\* doesSearchMatchItem agree, and are true exactly if the query is not empty
\* and the name of the item contains it up to case.
C18_DirectMatch ==
    \A k \in DOMAIN items, q \in Queries :
        /\ matchesSearch(q, items[k]) <=> doesSearchMatchItem(q, items[k])
        /\ matchesSearch(q, items[k])
           <=> q # "" /\ ContainsIgnoringCase(items[k].data.name, q)

\* C18 witness: the search term matches an item that does not hold it in the
\* case it was typed in.
C18_Witness ==
    /\ last.op = "search"
    /\ searchTerm # ""
    /\ \E k \in DOMAIN items :
           /\ matchesSearch(searchTerm, items[k])
           /\ ~StringIncludes(items[k].data.name, searchTerm)

\* The ids of the subtree of id in pre-order: an item before its children, the
\* children in the order of the children array.
RECURSIVE PreOrder(_, _)
PreOrder(its, id) ==
    LET RECURSIVE below(_)
        below(i) == IF i > Len(ChildrenOf(its, id)) THEN <<>>
                    ELSE PreOrder(its, ChildrenOf(its, id)[i]) \o below(i + 1)
    IN  IF id \in DOMAIN its THEN <<id>> \o below(1) ELSE <<>>

\* The first id of the array order whose name contains q up to case, as a
\* set: empty when there is none.
FirstMatchIn(order, q) ==
    LET hits == {i \in 1..Len(order) :
                    ContainsIgnoringCase(items[order[i]].data.name, q)}
    IN  IF hits = {} THEN {}
        ELSE {order[CHOOSE i \in hits : \A j \in hits : i <= j]}

\* C19: after a search for a query that is not empty, the scroll
\* target is the first item, in the pre-order of the tree below 'root', whose
\* name contains the query up to case, and there is none only when no name
\* contains it.
C19_FirstMatchInPreOrder ==
    last.op = "search" /\ last.id # ""
    => last.scroll = FirstMatchIn(PreOrder(items, "root"), last.id)

\* ------------------------------------------------------------------------
\* Vocabulary of the notification properties
\* ------------------------------------------------------------------------
\* The last call was a call of a handler of the map, and it changed the map.
Mutated ==
    /\ last.op \in {"create", "addSubGroup", "delete", "duplicate", "rename",
                    "edit", "drop"}
    /\ items # last.prev

\* The ids that the last call added to the map, and those it removed.
CreatedIds == (DOMAIN items) \ DOMAIN last.prev
DeletedIds == (DOMAIN last.prev) \ DOMAIN items

\* The ids that the last call kept and whose children or name it changed.
ChangedIds ==
    {k \in (DOMAIN items) \cap (DOMAIN last.prev) :
        \/ HasChildren(items[k]) # HasChildren(last.prev[k])
        \/ ChildrenOf(items, k) # ChildrenOf(last.prev, k)
        \/ items[k].data.name # last.prev[k].data.name}

\* C20, as claimed: after every call that changed the map a notification has
\* been emitted whose id list holds every id that the call created, deleted,
\* or whose children or name it changed.
C20_NotificationCoversChange ==
    Mutated =>
        \E e \in last.emitted :
            CreatedIds \cup DeletedIds \cup ChangedIds \subseteq Range(e)

\* C20, amended: after every call that changed the map a notification has
\* been emitted whose id list holds every id that the call created or whose
\* children or name it changed; the ids that the call deleted are in no
\* notification.
C20_NotificationCoversKeys ==
    Mutated =>
        /\ \E e \in last.emitted : CreatedIds \cup ChangedIds \subseteq Range(e)
        /\ \A e \in last.emitted : DeletedIds \cap Range(e) = {}

\* C20 witness: a delete has removed an id and changed the children of its
\* parent.
C20_Witness ==
    /\ Mutated
    /\ DeletedIds # {}
    /\ ChangedIds # {}

\* The fields of an item other than data: index, isFolder, children, canMove,
\* canRename, as far as the item has them.
Structure(item) == [f \in (DOMAIN item) \ {"data"} |-> item[f]]

\* C21: a rename or an edit of an id of the map keeps the keys of the map and
\* their order, keeps every other item as it was, and keeps the children, the
\* folder flag and the capability flags of the item itself; a rename also
\* keeps its type.
C21_RenameKeepsStructure ==
    /\ last.op \in {"rename", "edit"}
    /\ last.id \in DOMAIN last.prev
    => /\ keys = last.prevKeys
       /\ DOMAIN items = DOMAIN last.prev
       /\ \A k \in (DOMAIN items) \ {last.id} : items[k] = last.prev[k]
       /\ Structure(items[last.id]) = Structure(last.prev[last.id])
       /\ DOMAIN items[last.id].data = DOMAIN last.prev[last.id].data
       /\ last.op = "rename"
              => items[last.id].data.type = last.prev[last.id].data.type

\* C21 witness: a container with children has got a new name.
C21_Witness ==
    /\ last.op = "rename"
    /\ last.id \in DOMAIN last.prev
    /\ Len(ChildrenOf(last.prev, last.id)) > 0
    /\ items[last.id].data.name # last.prev[last.id].data.name

\* C22: add-sub-group on an id of the map adds exactly one key, the new id,
\* whose item is a container with an empty children array; the children of the
\* parent are the new id followed by its previous children in their order, and
\* the children of every other item are as before.
C22_AddSubGroupInsertsFirst ==
    /\ last.op = "addSubGroup"
    /\ last.id \in DOMAIN last.prev
    => /\ last.newId \notin DOMAIN last.prev
       /\ DOMAIN items = (DOMAIN last.prev) \cup {last.newId}
       /\ items[last.newId].isFolder
       /\ HasChildren(items[last.newId])
       /\ items[last.newId].children = <<>>
       /\ HasChildren(items[last.id])
       /\ items[last.id].children = <<last.newId>> \o ChildrenOf(last.prev, last.id)
       /\ \A k \in (DOMAIN last.prev) \ {last.id} :
              /\ HasChildren(items[k]) <=> HasChildren(last.prev[k])
              /\ ChildrenOf(items, k) = ChildrenOf(last.prev, k)

\* The items with a children array that is not empty and with a descendant
\* whose name contains q up to case.
MatchingContainers(q) ==
    {k \in DOMAIN items :
        /\ Len(ChildrenOf(items, k)) > 0
        /\ \E d \in Descendants(items, k) \cap DOMAIN items :
               ContainsIgnoringCase(items[d].data.name, q)}

\* C23, as claimed: after every change of the search input to a query that is
\* not empty, the items that handleSearch has asked the tree to expand are
\* exactly the items with a children array that is not empty and with a
\* descendant whose name contains the query.
C23_SearchExpandsMatchingContainers ==
    last.op = "search" /\ last.id # ""
    => last.expand = MatchingContainers(last.id)

\* C23, amended: the same while the tree is rendered; while it is not
\* rendered, handleSearch asks for no item to be expanded.
C23_SearchExpandsWhileRendered ==
    last.op = "search" /\ last.id # ""
    => IF treeRefCurrent(items, showEmptyState)
       THEN last.expand = MatchingContainers(last.id)
       ELSE last.expand = {}

\* C23 witness: a search has expanded some items and has left out an item
\* that has children.
C23_Witness ==
    /\ last.op = "search"
    /\ last.expand # {}
    /\ \E k \in (DOMAIN items) \ last.expand : Len(ChildrenOf(items, k)) > 0

\* ------------------------------------------------------------------------
\* Expanding and collapsing by hand
\* ------------------------------------------------------------------------
\* The rows whose expanded state is toggled by hand: two conferences of the
\* default set and a division outside it.
ClickTargets == {"monday", "friday", "8u"}

\* A click on the button of a rendered folder row (interactiveElementProps):
\* the tree environment expands a collapsed folder and collapses an expanded
\* one; App is not called.
InteractiveElementClicked ==
    /\ treeRefCurrent(items, showEmptyState)
    /\ \E id \in ClickTargets \cap DOMAIN items :
           /\ items[id].isFolder
           /\ expandedItems' = IF id \in expandedItems
                               THEN expandedItems \ {id}
                               ELSE expandedItems \cup {id}
           /\ last' = [op |-> "click", id |-> id, newId |-> "",
                       prev |-> items, prevKeys |-> keys,
                       emitted |-> {}, expand |-> {}, rename |-> {},
                       scroll |-> {}, error |-> NoError]
    /\ UNCHANGED <<items, keys, now, nOps, searchTerm, showEmptyState, jobs>>

NextView ==
    \/ InteractiveElementClicked
    \/ SearchChanged
    \/ SearchCleared
    \/ toggleEmptyState

\* Searching and clicking on the initial league structure
SpecView == Init /\ [][NextView]_vars

\* C24: right after the search query became empty, by handleSearch('') or by
\* clearSearch, the expanded items are exactly the ids of
\* {root, monday, wednesday, friday} that are keys of the item map.
C24_EmptyQueryRestoresDefault ==
    \/ last.op = "clearSearch"
    \/ last.op = "search" /\ last.id = ""
    => expandedItems = defaultExpanded \cap DOMAIN items


\* ------------------------------------------------------------------------
\* Emptying the tree
\* ------------------------------------------------------------------------
\* Number of handler calls in a run that empties the tree: the three
\* conferences are deleted before a group is created.
MaxEmptyOps == 4

\* Context menu of a top-level row: Delete
TopLevelDeleteClicked ==
    /\ nOps < MaxEmptyOps
    /\ treeRefCurrent(items, showEmptyState)
    /\ \E id \in Range(ChildrenOf(items, "root")) : handleDelete(id)

\* CreateGroupModal onSave, opened from the header or from the empty state
CreateGroupSavedAgain ==
    /\ nOps < MaxEmptyOps
    /\ \E name \in NewNames, type \in NewTypes :
           handleCreateTopLevelGroup(name, type)

NextEmpty ==
    \/ Tick
    \/ TopLevelDeleteClicked
    \/ CreateGroupSavedAgain
    \/ toggleEmptyState

\* Deleting and creating top-level groups, with the test toggle
SpecEmpty == Init /\ [][NextEmpty]_vars

\* C25: the empty state is rendered exactly when the test toggle is on, or
\* 'root' is not in the map, or root has no children list or an empty one;
\* and right after handleCreateTopLevelGroup the toggle is off, the new id is
\* the last child of root and the empty state is not rendered.
C25_EmptyStateShown ==
    /\ isTreeEmpty(items, showEmptyState)
           <=> \/ showEmptyState
               \/ "root" \notin DOMAIN items
               \/ "children" \notin DOMAIN items["root"]
               \/ items["root"].children = <<>>
    /\ last.op = "create"
           => /\ ~showEmptyState
              /\ "root" \in DOMAIN items
              /\ ChildrenOf(items, "root") # <<>>
              /\ ChildrenOf(items, "root")[Len(ChildrenOf(items, "root"))]
                     = last.newId
              /\ ~isTreeEmpty(items, showEmptyState)

\* C25 witness: a group was created while root had no children left.
C25_Witness ==
    /\ last.op = "create"
    /\ ChildrenOf(last.prev, "root") = <<>>
    /\ ~isTreeEmpty(items, showEmptyState)


\* ------------------------------------------------------------------------
\* The callbacks of handleAddSubGroup and handleDuplicate as jobs of their own
\* ------------------------------------------------------------------------
\* Number of handler calls in a run with the callbacks as separate jobs.
MaxFollowUps == 2

\* The team 'team-8u-1' and the rendered items that the run created.
FollowUpTargets == BurstTargets

\* Variant: the callback of the earlier handleAddSubGroup, which expands the
\* parent and emits nothing.
promiseCallbackCallsWithoutEmit(job, fx) ==
    IF fx.expand = {} THEN <<>>
    ELSE <<[job |-> job, call |-> "expandItem",
            ids |-> <<CHOOSE id \in fx.expand : TRUE>>]>>

\* The calls of the promise callback in the order of its statements:
\* treeRef.current.expandItem(parentId), then
\* dataProvider.onDidChangeTreeDataEmitter.emit([parentId, newId]).
promiseCallbackCalls(job, fx) ==
    IF fx.expand = {} THEN <<>>
    ELSE <<[job |-> job, call |-> "expandItem",
            ids |-> <<CHOOSE id \in fx.expand : TRUE>>],
           [job |-> job, call |-> "emit",
            ids |-> CHOOSE ids \in fx.emitted : TRUE]>>

\* The synchronous part of a handler with a promise callback: setItems with
\* the render that applies its updater, which React runs before the callbacks
\* of promises that the handler resolved, and Promise.resolve().then(...).
\* The callback keeps newId and the items of the render that built the handler.
CommitAndQueue(st, op, id, newId) ==
    /\ items' = st.items
    /\ keys' = st.keys
    /\ nOps' = nOps + 1
    /\ expandedItems' = ViewStateAfter(st.items, showEmptyState, expandedItems)
    /\ last' = [op |-> op, id |-> id, newId |-> newId,
                prev |-> items, prevKeys |-> keys,
                emitted |-> {useEffectEmit(st.items, st.keys, keys)},
                expand |-> {}, rename |-> {}, scroll |-> {}, error |-> NoError]
    /\ microtasks' = Append(microtasks,
                         [job |-> nOps + 1, op |-> op, id |-> id, newId |-> newId,
                          closureItems |-> items, closureKeys |-> keys])
    /\ calls' = Append(calls, [job |-> nOps + 1, call |-> "setItems",
                               ids |-> st.keys])
    /\ UNCHANGED <<now, searchTerm, showEmptyState, frames>>

\* Context menu: Add Sub-Group.  An event handler starts when no promise
\* callback is waiting.
AddSubGroupQueued ==
    /\ nOps < MaxFollowUps
    /\ microtasks = <<>>
    /\ \E parentId \in FollowUpTargets :
           LET newId == parentId \o "-subgroup-" \o ToString(now)
           IN  CommitAndQueue(handleAddSubGroupUpdater(items, keys, parentId, newId),
                              "addSubGroup", parentId, newId)

\* Context menu: Duplicate
DuplicateQueued ==
    /\ nOps < MaxFollowUps
    /\ microtasks = <<>>
    /\ \E itemId \in FollowUpTargets :
           LET newId == itemId \o "-copy-" \o ToString(now)
               n == IF FindParent(items, keys, itemId) # 0
                    THEN Draws(items, items[itemId]) ELSE 0
           IN  \E rs \in [1..n -> 0..(MaxRand - 1)] :
                   CommitAndQueue(
                       handleDuplicateUpdater(items, keys, itemId, newId, rs, now),
                       "duplicate", itemId, newId)

\* Context menu: Delete, also between a promise callback and its animation
\* frame
DeleteBetween ==
    /\ nOps < MaxFollowUps
    /\ microtasks = <<>>
    /\ \E id \in FollowUpTargets : handleDelete(id)

\* The test toggle, also between a promise callback and its animation frame
EmptyStateToggledBetween ==
    /\ microtasks = <<>>
    /\ toggleEmptyState

\* The promise callback of handleAddSubGroup or handleDuplicate
PromiseCallbackRun ==
    /\ microtasks # <<>>
    /\ LET job == Head(microtasks)
           st == [items |-> items, keys |-> keys]
           fx == IF job.op = "addSubGroup"
                 THEN handleAddSubGroupFollowUp(st, job.id, job.newId)
                 ELSE handleDuplicateFollowUp(job.closureItems, job.closureKeys,
                                              st, job.id, job.newId)
       IN  /\ microtasks' = Tail(microtasks)
           /\ expandedItems' = expandedItems \cup fx.expand
           /\ calls' = calls \o promiseCallbackCalls(job.job, fx)
           /\ frames' = IF fx.rename = {} THEN frames
                        ELSE Append(frames, [job |-> job.job, newId |-> job.newId])
    /\ UNCHANGED <<items, keys, now, nOps, searchTerm, showEmptyState, last>>

\* The callback of requestAnimationFrame
AnimationFrameRun ==
    /\ microtasks = <<>>
    /\ frames # <<>>
    /\ frames' = Tail(frames)
    /\ calls' = IF treeRefCurrent(items, showEmptyState)
                THEN Append(calls, [job |-> Head(frames).job,
                                    call |-> "startRenamingItem",
                                    ids |-> <<Head(frames).newId>>])
                ELSE calls
    /\ UNCHANGED <<items, keys, now, nOps, searchTerm, showEmptyState,
                   expandedItems, last, microtasks>>

NextFollowUp ==
    \/ AddSubGroupQueued
    \/ DuplicateQueued
    \/ DeleteBetween
    \/ EmptyStateToggledBetween
    \/ PromiseCallbackRun
    \/ AnimationFrameRun

\* Add-sub-group, duplicate and delete with the callbacks as separate jobs
SpecFollowUp == Init /\ [][NextFollowUp]_vars

\* The call at position i of the history was made by job j and is call c.
CallAt(i, j, c) == calls[i].job = j /\ calls[i].call = c

\* C26: the calls of a handler and its callbacks are made in the order
\* setItems (with newId a key of the map it leaves), expandItem(parent),
\* emit([parent, newId]), startRenamingItem(newId): every expandItem comes
\* after the setItems of its handler call, every emit after the expandItem,
\* and every startRenamingItem after all three.
C26_FollowUpsOrdered ==
    \A i \in DOMAIN calls :
        LET j == calls[i].job
        IN  /\ calls[i].call = "expandItem"
                => \E u \in 1..(i - 1) : CallAt(u, j, "setItems")
            /\ calls[i].call = "emit"
                => \E u, e \in 1..(i - 1) :
                       /\ u < e
                       /\ CallAt(u, j, "setItems")
                       /\ CallAt(e, j, "expandItem")
                       /\ calls[i].ids[1] = calls[e].ids[1]
                       /\ calls[i].ids[2] \in Range(calls[u].ids)
            /\ calls[i].call = "startRenamingItem"
                => \E u, e, n \in 1..(i - 1) :
                       /\ u < e /\ e < n
                       /\ CallAt(u, j, "setItems")
                       /\ CallAt(e, j, "expandItem")
                       /\ CallAt(n, j, "emit")
                       /\ calls[n].ids = <<calls[e].ids[1], calls[i].ids[1]>>
                       /\ calls[i].ids[1] \in Range(calls[u].ids)

\* C26 witness: renaming was started for the id of the first handler call
\* after the second handler call had changed the map.
C26_Witness ==
    \E i, k \in DOMAIN calls :
        /\ i < k
        /\ CallAt(i, 2, "setItems")
        /\ CallAt(k, 1, "startRenamingItem")


\* ------------------------------------------------------------------------
\* The previous state of the updaters
\* ------------------------------------------------------------------------
\* The item objects of prevItems that the updater of op assigns a field of:
\* parentItem.isFolder and parentItem.children in handleAddSubGroup,
\* rootItem.children in handleCreateTopLevelGroup, parentItem.children in
\* handleDelete and handleDuplicate, targetItem.children and
\* targetItem.isFolder in handleItemDrop.
assignedInPlace(op, prevItems, prevKeys, id) ==
    LET parentIdx == FindParent(prevItems, prevKeys, id)
    IN  CASE op \in {"addSubGroup", "drop"} -> {id} \cap DOMAIN prevItems
          [] op = "create" -> {"root"} \cap DOMAIN prevItems
          [] op = "delete" ->
                 IF parentIdx # 0 THEN {prevKeys[parentIdx]} ELSE {}
          [] op = "duplicate" ->
                 IF parentIdx # 0 /\ id \in DOMAIN prevItems
                 THEN {prevKeys[parentIdx]} ELSE {}
          [] OTHER -> {}

\* prevItems after the updater of op has returned st.  newItems is
\* { ...prevItems }: the two maps have keys of their own and share the item
\* objects, so that a key written or deleted in newItems leaves prevItems as
\* it was, and a field assigned on an item shows in both.
prevItemsAfter(op, prevItems, prevKeys, id, st) ==
    LET assigned == assignedInPlace(op, prevItems, prevKeys, id)
    IN  [k \in DOMAIN prevItems |->
            IF k \in assigned /\ k \in DOMAIN st.items
            THEN st.items[k] ELSE prevItems[k]]

\* The updater of op called on prevItems, for the handlers whose updater
\* draws no random number; created is the item that the first call made.
updaterOf(op, prevItems, prevKeys, id, newId, created) ==
    CASE op = "addSubGroup" ->
             handleAddSubGroupUpdater(prevItems, prevKeys, id, newId)
      [] op = "create" ->
             handleCreateTopLevelGroupUpdater(prevItems, prevKeys, newId,
                                              created.data.name, created.data.type)
      [] op = "delete" -> handleDeleteUpdater(prevItems, prevKeys, id)
      [] op = "drop" -> handleItemDropUpdater(prevItems, prevKeys, id)

\* C27: the updaters of add-sub-group, create-top-level-group, delete,
\* duplicate and drop leave every item of the previous map as it was, and a
\* second call of the updater of add-sub-group, create-top-level-group, delete
\* or drop on the same previous map returns the map that the first call
\* returned.
C27_UpdatersKeepPreviousState ==
    last.op \in {"addSubGroup", "create", "delete", "duplicate", "drop"}
    => LET st == [items |-> items, keys |-> keys]
           after == prevItemsAfter(last.op, last.prev, last.prevKeys, last.id, st)
       IN  /\ after = last.prev
           /\ last.op # "duplicate"
                  => updaterOf(last.op, after, last.prevKeys, last.id, last.newId,
                               IF last.op = "create" THEN items[last.newId]
                               ELSE items["root"])
                         = st


\* ------------------------------------------------------------------------
\* Searching after deletions
\* ------------------------------------------------------------------------
\* The texts typed into the search input after conferences were deleted.
LateQueries == {"", "Ti", "u", "W"}

\* onChange of the search input
SearchChangedLate == \E value \in LateQueries \ {searchTerm} : handleSearch(value)

NextLate ==
    \/ TopLevelDeleteClicked
    \/ SearchChangedLate

\* Deleting conferences and searching
SpecLate == Init /\ [][NextLate]_vars

\* The ids of the tree that Tree renders: 'root' and what its children lists
\* lead to.
InTree == Subtree(items, "root")

\* C28: after a search for a non-empty text, every id of directMatches, and
\* the id that the timer scrolls to, is in the tree below 'root'.
C28_SearchResultsInTree ==
    /\ last.op = "search"
    /\ last.id # ""
    /\ treeRefCurrent(items, showEmptyState)
    => /\ Range(directMatches(items, keys, last.id)) \subseteq InTree
       /\ last.scroll \subseteq InTree


\* C29: after duplicating a non-root node n no key of the map is removed and
\* the keys added are exactly the ids of the clone subtree; every item that
\* existed before keeps its name, type, folder flag and children list, except
\* that the children of the parent of n gain one id, which is new to them.
C29_DuplicateKeepsTheRest ==
    Duplicated =>
        LET clone == Subtree(items, last.newId)
            before == ChildrenOf(last.prev, PrevParent)
            after == ChildrenOf(items, PrevParent)
        IN  /\ DOMAIN items = (DOMAIN last.prev) \cup clone
            /\ clone \cap DOMAIN last.prev = {}
            /\ \A k \in DOMAIN last.prev :
                   /\ items[k].data = last.prev[k].data
                   /\ items[k].isFolder = last.prev[k].isFolder
                   /\ HasChildren(items[k]) <=> HasChildren(last.prev[k])
                   /\ k # PrevParent
                          => ChildrenOf(items, k) = ChildrenOf(last.prev, k)
            /\ Len(after) = Len(before) + 1
            /\ Range(after) = Range(before) \cup {last.newId}
            /\ last.newId \notin Range(before)


\* ------------------------------------------------------------------------
\* The items that the recursive functions go through
\* ------------------------------------------------------------------------
\* Stands in a list of visits for a call that was not made because the calls
\* were nested deeper than allowed.
NotFinished == "(not finished)"

\* The child items that hasMatchingChildren(itemId, term) reads, in the order
\* it reads them, with those of its recursive calls, nested at most depth
\* deep.  The callback of some() makes the recursive call for every child it
\* is given, and some() stops after the first child for which it returns true.
RECURSIVE hasMatchingChildrenVisits(_, _, _, _)
hasMatchingChildrenVisits(its, itemId, term, depth) ==
    IF depth = 0 THEN <<NotFinished>>
    ELSE IF \/ term = ""
            \/ itemId \notin DOMAIN its
            \/ ~HasChildren(its[itemId])
            \/ Len(its[itemId].children) = 0
         THEN <<>>
         ELSE LET children == its[itemId].children
                  RECURSIVE some(_)
                  some(i) ==
                      IF i > Len(children) THEN <<>>
                      ELSE IF children[i] \notin DOMAIN its THEN some(i + 1)
                      ELSE LET below == hasMatchingChildrenVisits(
                                            its, children[i], term, depth - 1)
                               found ==
                                   /\ NotFinished \notin Range(below)
                                   /\ \/ nameIncludes(its[children[i]].data.name, term)
                                      \/ hasMatchingChildren(its, children[i], term)
                           IN  <<children[i]>> \o below
                                   \o (IF found \/ NotFinished \in Range(below)
                                       THEN <<>> ELSE some(i + 1))
              IN  some(1)

\* The child items that deepCopyItem(items[itemId], ...) copies, in the order
\* it copies them, with those of its recursive calls, nested at most depth
\* deep.
RECURSIVE deepCopyItemVisits(_, _, _)
deepCopyItemVisits(its, itemId, depth) ==
    IF depth = 0 THEN <<NotFinished>>
    ELSE IF ~HasChildren(its[itemId]) \/ Len(its[itemId].children) = 0
         THEN <<>>
         ELSE LET children == its[itemId].children
                  RECURSIVE forEach(_)
                  forEach(i) ==
                      IF i > Len(children) THEN <<>>
                      ELSE IF children[i] \notin DOMAIN its THEN forEach(i + 1)
                      ELSE LET below == deepCopyItemVisits(its, children[i],
                                                           depth - 1)
                           IN  <<children[i]>> \o below
                                   \o (IF NotFinished \in Range(below)
                                       THEN <<>> ELSE forEach(i + 1))
              IN  forEach(1)

\* The list holds no element at two positions.
NoRepeats(list) ==
    \A i, j \in 1..Len(list) : list[i] = list[j] => i = j

\* The texts that the traversal of hasMatchingChildren is looked at for.
VisitQueries == {"Ti", "u"}

\* C30: in every state hasMatchingChildren, from every item, and
\* deepCopyItem, from every item that has a parent (the items handleDuplicate
\* copies), come to an end with calls nested no deeper than the map has keys,
\* and visit no item twice.
C30_TraversalsVisitOnce ==
    \A k \in DOMAIN items :
        LET depth == Cardinality(DOMAIN items) + 1
            copied == IF FindParent(items, keys, k) # 0
                      THEN deepCopyItemVisits(items, k, depth) ELSE <<>>
        IN  /\ NotFinished \notin Range(copied)
            /\ NoRepeats(copied)
            /\ \A term \in VisitQueries :
                   LET read == hasMatchingChildrenVisits(items, k, term, depth)
                   IN  /\ NotFinished \notin Range(read)
                       /\ NoRepeats(read)

====
